---- MODULE Spec2Model ----
(***************************************************************************)
(* codis-fe (cmd/fe/main.go): the reload loop that polls the dashboard     *)
(* list file through ConfigLoader.Reload / ConfigLoader.Load, installs the *)
(* result with ReverseProxy.Update, and the request handlers that read the *)
(* route table through ReverseProxy.GetProxy and ReverseProxy.Names.       *)
(***************************************************************************)
EXTENDS Integers, Sequences, FiniteSets, TLC

\* ------------------------------------------------------------------ bounds
\* longest record list the external writer builds in the config file
MaxLen == 2
\* modification times the config file can carry are 1..MaxMTime
MaxMTime == 2
\* number of concurrent request-handling tasks
NReaders == 2

\* ---------------------------------------------------------------- universes
\* time.Time{} : the zero value ConfigLoader.last starts with
ZeroTime == 0
MTimes == 1..MaxMTime

\* a JSON object member: <<>> when the member is absent, <<s>> when it is
\* present with string value s
Absent == <<>>
\* the records (JSON array elements) the writer can put into the file:
\* null, an object without "name", an object with an empty "dashboard",
\* and complete objects
NullElem == [null |-> TRUE, name |-> Absent, dashboard |-> Absent]
Obj(n, d) == [null |-> FALSE, name |-> n, dashboard |-> d]
Elems ==
    { NullElem,
      Obj(Absent, <<"h1">>),
      Obj(<<"a">>, <<"">>),
      Obj(<<"a">>, <<"h1">>),
      Obj(<<"a">>, <<"h2">>),
      Obj(<<"b">>, <<"h2">>) }

\* names a request can carry in its "forward" query parameter
Names == {"", "a", "b"}

\* the content of the config file, as a JSON document:
\*   "syntax" not JSON at all, "object" a JSON value of the wrong shape,
\*   "null" the JSON literal null, "array" a JSON array of elems
Doc(k, es) == [kind |-> k, elems |-> es]
BadKinds == {"syntax", "object"}
Lists == UNION {[1..n -> Elems] : n \in 0..MaxLen}
Docs == {Doc(k, <<>>) : k \in BadKinds \cup {"null"}}
        \cup {Doc("array", es) : es \in Lists}
\* the states of the file that ReadFile can meet
Files ==
    {[st |-> "noperm", mtime |-> MaxMTime, doc |-> Doc("syntax", <<>>)]}
    \cup {[st |-> "ok", mtime |-> MaxMTime, doc |-> d] : d \in Docs}

\* ------------------------------------------------------------------- state
VARIABLES
    file,       \* the config file: [st, mtime, doc]
    last,       \* ConfigLoader.last
    fi,         \* Reload's fi.ModTime(), between its Stat and its Load
    m,          \* reload loop: m of "m, err := loader.Reload(config)"
    err,        \* reload loop: err of the same statement
    pc,         \* reload loop: where the goroutine is
    routes,     \* ReverseProxy.routes: [nil, tab]
    mutex,      \* ReverseProxy's embedded sync.Mutex: the set of its holders
    todo,       \* Update: keys of the range over routes not yet visited
    installed,  \* history: routes as the last completed Update left it
    modified,   \* history: the file was written since Reload last returned a
                \* mapping, or Reload never did
    stale,      \* history: the last Reload failed to parse the file and the
                \* file was not written since
    rpc,        \* request task: where it is
    rname,      \* request task: name of GetProxy(name)
    rres,       \* request task: the *httputil.ReverseProxy GetProxy returned
    rnames      \* request task: the slice Names() returned

vars == <<file, last, fi, m, err, pc, routes, mutex, todo, installed,
          modified, stale, rpc, rname, rres, rnames>>
loaderVars == <<last, fi, m, err, pc>>
tableVars == <<routes, mutex, todo, installed>>
readerVars == <<rpc, rname, rres, rnames>>

Readers == 1..NReaders
\* the reload goroutine, as a holder of the mutex
LoopId == 0
\* the process lives until a goroutine panics
Running == pc # "crashed"

\* ------------------------------------------------------------------- maps
\* a Go map value: nil, or a table from keys to values
NilMap == [nil |-> TRUE, tab |-> <<>>]
MakeMap == [nil |-> FALSE, tab |-> <<>>]
MapOf(t) == [nil |-> FALSE, tab |-> t]
\* m[k] = v
Put(t, k, v) == (k :> v) @@ t

\* ------------------------------------------------------------ ConfigLoader
\* errors.Trace keeps nil nil and a non-nil error non-nil
Trace(e) == e

\* json.Unmarshal of one object member into a string field: the zero value
\* "" when the member is absent
FieldValue(f) == IF f = Absent THEN "" ELSE f[1]

\* json.Unmarshal(b, &list): the error, or the decoded []*struct
Unmarshal(doc) ==
    CASE doc.kind \in BadKinds -> [err |-> "parse", list |-> <<>>]
      [] doc.kind = "null"     -> [err |-> "nil", list |-> <<>>]
      [] OTHER ->
           [err |-> "nil",
            list |-> [i \in 1..Len(doc.elems) |->
                        IF doc.elems[i].null
                        THEN [ptr |-> FALSE, Name |-> "", Dashboard |-> ""]
                        ELSE [ptr |-> TRUE,
                              Name |-> FieldValue(doc.elems[i].name),
                              Dashboard |-> FieldValue(doc.elems[i].dashboard)]]]

\* mutant of RangeList: a record with an empty Name or Dashboard is skipped
RECURSIVE RangeListSkipsInvalid(_, _, _)
RangeListSkipsInvalid(l, i, acc) ==
    IF i > Len(l) THEN [panic |-> FALSE, tab |-> acc]
    ELSE IF ~l[i].ptr THEN [panic |-> TRUE, tab |-> acc]
    ELSE RangeListSkipsInvalid(l, i + 1,
             IF l[i].Name = "" \/ l[i].Dashboard = "" THEN acc
             ELSE Put(acc, l[i].Name, l[i].Dashboard))

\* mutant of RangeList: an earlier record of a name is kept, not overwritten
RECURSIVE RangeListFirstWins(_, _, _)
RangeListFirstWins(l, i, acc) ==
    IF i > Len(l) THEN [panic |-> FALSE, tab |-> acc]
    ELSE IF ~l[i].ptr THEN [panic |-> TRUE, tab |-> acc]
    ELSE RangeListFirstWins(l, i + 1,
             IF l[i].Name \in DOMAIN acc THEN acc
             ELSE Put(acc, l[i].Name, l[i].Dashboard))

\* the loop "for _, e := range list { m[e.Name] = e.Dashboard }" from index i
\* on, with acc the map so far; [panic |-> TRUE] when e is a nil pointer
RECURSIVE RangeList(_, _, _)
RangeList(l, i, acc) ==
    IF i > Len(l) THEN [panic |-> FALSE, tab |-> acc]
    ELSE IF ~l[i].ptr THEN [panic |-> TRUE, tab |-> acc]
    ELSE RangeList(l, i + 1, Put(acc, l[i].Name, l[i].Dashboard))

\* ConfigLoader.Load on the file as it is now:
\* [out |-> "err" | "panic" | "ok", err, m]
Load(f) ==
    IF f.st # "ok"
    THEN [out |-> "err", err |-> Trace("read"), m |-> NilMap]
    ELSE LET u == Unmarshal(f.doc) IN
         IF u.err # "nil"
         THEN [out |-> "err", err |-> Trace(u.err), m |-> NilMap]
         ELSE LET r == RangeList(u.list, 1, <<>>) IN
              IF r.panic
              THEN [out |-> "panic", err |-> "nil", m |-> NilMap]
              ELSE [out |-> "ok", err |-> "nil", m |-> MapOf(r.tab)]

\* mutant of ReloadStat: l.last is set as soon as Stat found a new time
ReloadStatSetsLast ==
    /\ pc = "reload"
    /\ IF file.st = "missing"
       THEN /\ m' = NilMap
            /\ err' = Trace("stat")
            /\ pc' = "backoff"
            /\ UNCHANGED <<fi, last>>
       ELSE IF file.mtime = last
       THEN /\ m' = NilMap
            /\ err' = Trace("nil")
            /\ pc' = "sleep"
            /\ UNCHANGED <<fi, last>>
       ELSE /\ fi' = file.mtime
            /\ last' = file.mtime
            /\ pc' = "load"
            /\ UNCHANGED <<m, err>>
    /\ UNCHANGED <<file, modified, stale, tableVars, readerVars>>

\* mutant of ReloadStat: the modification time is not compared with l.last
ReloadStatNoCompare ==
    /\ pc = "reload"
    /\ IF file.st = "missing"
       THEN /\ m' = NilMap
            /\ err' = Trace("stat")
            /\ pc' = "backoff"
            /\ UNCHANGED fi
       ELSE /\ fi' = file.mtime
            /\ pc' = "load"
            /\ UNCHANGED <<m, err>>
    /\ UNCHANGED <<file, modified, stale, last, tableVars, readerVars>>

\* Reload, first half: os.Stat(path) and the comparison with l.last
ReloadStat ==
    /\ pc = "reload"
    /\ IF file.st = "missing"
       THEN /\ m' = NilMap
            /\ err' = Trace("stat")
            /\ pc' = "backoff"
            /\ UNCHANGED fi
       ELSE IF file.mtime = last
       THEN /\ m' = NilMap
            /\ err' = Trace("nil")
            /\ pc' = "sleep"
            /\ UNCHANGED fi
       ELSE /\ fi' = file.mtime
            /\ pc' = "load"
            /\ UNCHANGED <<m, err>>
    /\ UNCHANGED <<file, modified, stale, last, tableVars, readerVars>>

\* mutant of ReloadLoad: a mapping without an entry counts as no change
ReloadLoadSkipsEmpty ==
    /\ pc = "load"
    /\ LET r == Load(file) IN
       CASE r.out = "panic" ->
              /\ pc' = "crashed"
              /\ UNCHANGED <<m, err, last>>
         [] r.out = "err" ->
              /\ m' = NilMap
              /\ err' = r.err
              /\ pc' = "backoff"
              /\ UNCHANGED last
         [] OTHER ->
              /\ m' = IF DOMAIN r.m.tab = {} THEN NilMap ELSE r.m
              /\ err' = "nil"
              /\ last' = fi
              /\ pc' = IF DOMAIN r.m.tab = {} THEN "sleep" ELSE "update"
    /\ fi' = ZeroTime
    /\ modified' = IF Load(file).out = "ok" THEN FALSE ELSE modified
    /\ stale' = (Load(file).out = "err" /\ Load(file).err = Trace("parse"))
    /\ UNCHANGED <<file, tableVars, readerVars>>

\* mutant of ReloadLoad: l.last is set before Load's error is looked at
ReloadLoadSetsLastFirst ==
    /\ pc = "load"
    /\ LET r == Load(file) IN
       CASE r.out = "panic" ->
              /\ pc' = "crashed"
              /\ UNCHANGED <<m, err, last>>
         [] r.out = "err" ->
              /\ m' = NilMap
              /\ err' = r.err
              /\ pc' = "backoff"
              /\ last' = fi
         [] OTHER ->
              /\ m' = r.m
              /\ err' = "nil"
              /\ last' = fi
              /\ pc' = IF r.m.nil THEN "sleep" ELSE "update"
    /\ fi' = ZeroTime
    /\ modified' = IF Load(file).out = "ok" THEN FALSE ELSE modified
    /\ stale' = (Load(file).out = "err" /\ Load(file).err = Trace("parse"))
    /\ UNCHANGED <<file, tableVars, readerVars>>

\* mutant of ReloadLoad: l.last is never set
ReloadLoadKeepsLast ==
    /\ pc = "load"
    /\ LET r == Load(file) IN
       CASE r.out = "panic" ->
              /\ pc' = "crashed"
              /\ UNCHANGED <<m, err>>
         [] r.out = "err" ->
              /\ m' = NilMap
              /\ err' = r.err
              /\ pc' = "backoff"
         [] OTHER ->
              /\ m' = r.m
              /\ err' = "nil"
              /\ pc' = IF r.m.nil THEN "sleep" ELSE "update"
    /\ fi' = ZeroTime
    /\ modified' = IF Load(file).out = "ok" THEN FALSE ELSE modified
    /\ stale' = (Load(file).out = "err" /\ Load(file).err = Trace("parse"))
    /\ UNCHANGED <<file, last, tableVars, readerVars>>

\* mutant of ReloadLoad: the loop calls Update whatever Reload returned
ReloadLoadAlwaysUpdates ==
    /\ pc = "load"
    /\ LET r == Load(file) IN
       CASE r.out = "panic" ->
              /\ pc' = "crashed"
              /\ UNCHANGED <<m, err, last>>
         [] r.out = "err" ->
              /\ m' = NilMap
              /\ err' = r.err
              /\ pc' = "update"
              /\ UNCHANGED last
         [] OTHER ->
              /\ m' = r.m
              /\ err' = "nil"
              /\ last' = fi
              /\ pc' = "update"
    /\ fi' = ZeroTime
    /\ modified' = IF Load(file).out = "ok" THEN FALSE ELSE modified
    /\ stale' = (Load(file).out = "err" /\ Load(file).err = Trace("parse"))
    /\ UNCHANGED <<file, tableVars, readerVars>>

\* Reload, second half: l.Load(path), then l.last = fi.ModTime(); the loop's
\* "if err != nil / if m != nil" picks where the goroutine goes next
ReloadLoad ==
    /\ pc = "load"
    /\ LET r == Load(file) IN
       CASE r.out = "panic" ->
              /\ pc' = "crashed"
              /\ UNCHANGED <<m, err, last>>
         [] r.out = "err" ->
              /\ m' = NilMap
              /\ err' = r.err
              /\ pc' = "backoff"
              /\ UNCHANGED last
         [] OTHER ->
              /\ m' = r.m
              /\ err' = "nil"
              /\ last' = fi
              /\ pc' = IF r.m.nil THEN "sleep" ELSE "update"
    /\ fi' = ZeroTime
    /\ modified' = IF Load(file).out = "ok" THEN FALSE ELSE modified
    /\ stale' = (Load(file).out = "err" /\ Load(file).err = Trace("parse"))
    /\ UNCHANGED <<file, tableVars, readerVars>>

\* ------------------------------------------------------------ ReverseProxy
\* &url.URL{Scheme: "http", Host: host} behind NewSingleHostReverseProxy
NewSingleHostReverseProxy(host) == <<"http", host>>
\* a nil *httputil.ReverseProxy
NilProxy == <<>>

\* mutant of UpdateLock: the new table is begun without r.Lock()
UpdateLockNoMutex ==
    /\ pc = "update"
    /\ mutex' = mutex
    /\ routes' = MakeMap
    /\ todo' = DOMAIN m.tab
    /\ pc' = "range"
    /\ UNCHANGED <<file, modified, stale, last, fi, m, err, installed, readerVars>>

\* mutant of UpdateLock: the map is made only once and then filled again
UpdateLockKeepsEntries ==
    /\ pc = "update"
    /\ mutex = {}
    /\ mutex' = {LoopId}
    /\ routes' = IF routes.nil THEN MakeMap ELSE routes
    /\ todo' = DOMAIN m.tab
    /\ pc' = "range"
    /\ UNCHANGED <<file, modified, stale, last, fi, m, err, installed, readerVars>>

\* Update: r.Lock(); r.routes = make(map...); the range over routes starts
UpdateLock ==
    /\ pc = "update"
    /\ mutex = {}
    /\ mutex' = {LoopId}
    /\ routes' = MakeMap
    /\ todo' = DOMAIN m.tab
    /\ pc' = "range"
    /\ UNCHANGED <<file, modified, stale, last, fi, m, err, installed, readerVars>>

\* mutant of UpdateRange: no entry is skipped
UpdateRangeNoSkip ==
    /\ pc = "range"
    /\ \E name \in todo :
         /\ routes' = MapOf(Put(routes.tab, name,
                                NewSingleHostReverseProxy(m.tab[name])))
         /\ todo' = todo \ {name}
    /\ UNCHANGED <<file, modified, stale, loaderVars, mutex, installed, readerVars>>

\* Update: one iteration of "for name, host := range routes", in map order
UpdateRange ==
    /\ pc = "range"
    /\ \E name \in todo :
         LET host == m.tab[name] IN
         /\ routes' = IF name = "" \/ host = ""
                      THEN routes
                      ELSE MapOf(Put(routes.tab, name,
                                     NewSingleHostReverseProxy(host)))
         /\ todo' = todo \ {name}
    /\ UNCHANGED <<file, modified, stale, loaderVars, mutex, installed, readerVars>>

\* Update: the range is over; the deferred r.Unlock() runs and Update returns
UpdateUnlock ==
    /\ pc = "range"
    /\ todo = {}
    /\ mutex' = mutex \ {LoopId}
    /\ installed' = routes
    /\ pc' = "sleep"
    /\ UNCHANGED <<file, modified, stale, last, fi, m, err, routes, todo, readerVars>>

\* the loop's time.Sleep(time.Second); the iteration ends, and with it the
\* scope of its m and err
Sleep ==
    /\ pc = "sleep"
    /\ pc' = "reload"
    /\ m' = NilMap
    /\ err' = "nil"
    /\ UNCHANGED <<file, modified, stale, last, fi, tableVars, readerVars>>

\* the loop's time.Sleep(time.Second * 5) after a failed Reload
Backoff ==
    /\ pc = "backoff"
    /\ pc' = "reload"
    /\ m' = NilMap
    /\ err' = "nil"
    /\ UNCHANGED <<file, modified, stale, last, fi, tableVars, readerVars>>

\* Reload as the request side sees it: the file is in whatever state the
\* outside writer left it, so Stat fails, or the modification time is the
\* remembered one, or Load runs on some file
ReloadAny ==
    /\ pc = "reload"
    /\ \/ /\ m' = NilMap
          /\ err' = Trace("stat")
          /\ pc' = "backoff"
       \/ /\ m' = NilMap
          /\ err' = Trace("nil")
          /\ pc' = "sleep"
       \/ \E f \in Files :
            LET r == Load(f) IN
            CASE r.out = "panic" ->
                   /\ pc' = "crashed"
                   /\ UNCHANGED <<m, err>>
              [] r.out = "err" ->
                   /\ m' = NilMap
                   /\ err' = r.err
                   /\ pc' = "backoff"
              [] OTHER ->
                   /\ m' = r.m
                   /\ err' = "nil"
                   /\ pc' = IF r.m.nil THEN "sleep" ELSE "update"
    /\ UNCHANGED <<file, modified, stale, last, fi, tableVars, readerVars>>

\* ---------------------------------------------------------- request tasks
\* r.routes[name] of GetProxy, with its nil check: a missing key reads as nil
GetProxy(rt, name) ==
    IF rt.nil THEN NilProxy
    ELSE IF name \in DOMAIN rt.tab THEN rt.tab[name] ELSE NilProxy

\* every order a range over the keys of a map can take
Orders(S) == {s \in [1..Cardinality(S) -> S] : \A i, j \in DOMAIN s : s[i] = s[j] => i = j}

\* a request reaches the "/**" handler: name is its "forward" parameter
\* ("" when it has none)
Dispatch(r, name) ==
    /\ Running
    /\ rpc[r] = "idle"
    /\ rpc' = [rpc EXCEPT ![r] = "getproxy"]
    /\ rname' = [rname EXCEPT ![r] = name]
    /\ UNCHANGED <<file, modified, stale, loaderVars, tableVars, rres, rnames>>

\* mutant of GetProxyLock: GetProxy goes on without waiting for the mutex
GetProxyLockNoWait(r) ==
    /\ Running
    /\ rpc[r] = "getproxy"
    /\ mutex' = mutex \cup {r}
    /\ rpc' = [rpc EXCEPT ![r] = "lookup"]
    /\ UNCHANGED <<file, modified, stale, loaderVars, routes, todo, installed, rname, rres, rnames>>

\* GetProxy: r.Lock()
GetProxyLock(r) ==
    /\ Running
    /\ rpc[r] = "getproxy"
    /\ mutex = {}
    /\ mutex' = {r}
    /\ rpc' = [rpc EXCEPT ![r] = "lookup"]
    /\ UNCHANGED <<file, modified, stale, loaderVars, routes, todo, installed, rname, rres, rnames>>

\* mutant of GetProxyRead: a nil routes is made on first use
GetProxyReadMakes(r) ==
    /\ Running
    /\ rpc[r] = "lookup"
    /\ rres' = [rres EXCEPT ![r] = GetProxy(routes, rname[r])]
    /\ routes' = IF routes.nil THEN MakeMap ELSE routes
    /\ rpc' = [rpc EXCEPT ![r] = "looked"]
    /\ UNCHANGED <<file, modified, stale, loaderVars, mutex, todo, installed, rname, rnames>>

\* GetProxy: the nil check and r.routes[name]
GetProxyRead(r) ==
    /\ Running
    /\ rpc[r] = "lookup"
    /\ rres' = [rres EXCEPT ![r] = GetProxy(routes, rname[r])]
    /\ rpc' = [rpc EXCEPT ![r] = "looked"]
    /\ UNCHANGED <<file, modified, stale, loaderVars, tableVars, rname, rnames>>

\* mutant of GetProxyUnlock: the mutex is kept for the forwarding
GetProxyUnlockKeepsMutex(r) ==
    /\ Running
    /\ rpc[r] = "looked"
    /\ mutex' = mutex
    /\ rpc' = [rpc EXCEPT ![r] = IF rres[r] # NilProxy THEN "serve" ELSE "forbidden"]
    /\ UNCHANGED <<file, modified, stale, loaderVars, routes, todo, installed, rname, rres, rnames>>

\* mutant of GetProxyUnlock: the handler does not test p for nil
GetProxyUnlockNoNilTest(r) ==
    /\ Running
    /\ rpc[r] = "looked"
    /\ mutex' = mutex \ {r}
    /\ rpc' = [rpc EXCEPT ![r] = "serve"]
    /\ UNCHANGED <<file, modified, stale, loaderVars, routes, todo, installed, rname, rres, rnames>>

\* GetProxy: the deferred r.Unlock(); back in the handler, "if p != nil"
GetProxyUnlock(r) ==
    /\ Running
    /\ rpc[r] = "looked"
    /\ mutex' = mutex \ {r}
    /\ rpc' = [rpc EXCEPT ![r] = IF rres[r] # NilProxy THEN "serve" ELSE "forbidden"]
    /\ UNCHANGED <<file, modified, stale, loaderVars, routes, todo, installed, rname, rres, rnames>>

\* p.ServeHTTP(w, req) runs to its end
ServeHTTP(r) ==
    /\ Running
    /\ rpc[r] = "serve"
    /\ rpc' = [rpc EXCEPT ![r] = "idle"]
    /\ rname' = [rname EXCEPT ![r] = ""]
    /\ rres' = [rres EXCEPT ![r] = NilProxy]
    /\ UNCHANGED <<file, modified, stale, loaderVars, tableVars, rnames>>

\* w.WriteHeader(http.StatusForbidden)
Forbidden(r) ==
    /\ Running
    /\ rpc[r] = "forbidden"
    /\ rpc' = [rpc EXCEPT ![r] = "idle"]
    /\ rname' = [rname EXCEPT ![r] = ""]
    /\ UNCHANGED <<file, modified, stale, loaderVars, tableVars, rres, rnames>>

\* a request reaches the "/list" handler
List(r) ==
    /\ Running
    /\ rpc[r] = "idle"
    /\ rpc' = [rpc EXCEPT ![r] = "names"]
    /\ UNCHANGED <<file, modified, stale, loaderVars, tableVars, rname, rres, rnames>>

\* mutant of NamesLock: Names goes on without waiting for the mutex
NamesLockNoWait(r) ==
    /\ Running
    /\ rpc[r] = "names"
    /\ mutex' = mutex \cup {r}
    /\ rpc' = [rpc EXCEPT ![r] = "collect"]
    /\ UNCHANGED <<file, modified, stale, loaderVars, routes, todo, installed, rname, rres, rnames>>

\* Names: r.Lock()
NamesLock(r) ==
    /\ Running
    /\ rpc[r] = "names"
    /\ mutex = {}
    /\ mutex' = {r}
    /\ rpc' = [rpc EXCEPT ![r] = "collect"]
    /\ UNCHANGED <<file, modified, stale, loaderVars, routes, todo, installed, rname, rres, rnames>>

\* Names: "for name, _ := range r.routes { names = append(names, name) }",
\* in map order; names stays nil when routes is nil
NamesRange(r) ==
    /\ Running
    /\ rpc[r] = "collect"
    /\ \E s \in Orders(DOMAIN routes.tab) : rnames' = [rnames EXCEPT ![r] = s]
    /\ rpc' = [rpc EXCEPT ![r] = "collected"]
    /\ UNCHANGED <<file, modified, stale, loaderVars, tableVars, rname, rres>>

\* Names: the deferred r.Unlock() and the return of names; the handler
\* sorts its copy and answers
NamesUnlock(r) ==
    /\ Running
    /\ rpc[r] = "collected"
    /\ mutex' = mutex \ {r}
    /\ rpc' = [rpc EXCEPT ![r] = "idle"]
    /\ rnames' = [rnames EXCEPT ![r] = <<>>]
    /\ UNCHANGED <<file, modified, stale, loaderVars, routes, todo, installed, rname, rres>>

Handler(r) ==
    \/ \E name \in Names : Dispatch(r, name)
    \/ GetProxyLock(r)
    \/ GetProxyRead(r)
    \/ GetProxyUnlock(r)
    \/ ServeHTTP(r)
    \/ Forbidden(r)
    \/ List(r)
    \/ NamesLock(r)
    \/ NamesRange(r)
    \/ NamesUnlock(r)

\* ----------------------------------------------------------- config source
\* the outside process that owns the file
\* the file is written anew holding an empty list
WriteEmpty(t) ==
    /\ file' = [st |-> "ok", mtime |-> t, doc |-> Doc("array", <<>>)]
    /\ modified' = TRUE
    /\ stale' = FALSE
    /\ UNCHANGED <<loaderVars, tableVars, readerVars>>

\* one more record is appended to the list in the file
AppendRecord(e, t) ==
    /\ file.st = "ok"
    /\ file.doc.kind = "array"
    /\ Len(file.doc.elems) < MaxLen
    /\ file' = [st |-> "ok", mtime |-> t,
                doc |-> Doc("array", Append(file.doc.elems, e))]
    /\ modified' = TRUE
    /\ stale' = FALSE
    /\ UNCHANGED <<loaderVars, tableVars, readerVars>>

\* the file is written with something that is no list of records
WriteOther(k, t) ==
    /\ file' = [st |-> "ok", mtime |-> t, doc |-> Doc(k, <<>>)]
    /\ modified' = TRUE
    /\ stale' = FALSE
    /\ UNCHANGED <<loaderVars, tableVars, readerVars>>

\* the file is replaced as a whole
WriteFile(d, t) ==
    /\ file' = [st |-> "ok", mtime |-> t, doc |-> d]
    /\ modified' = TRUE
    /\ stale' = FALSE
    /\ UNCHANGED <<loaderVars, tableVars, readerVars>>

\* the file is removed; mtime keeps the time the file had last, which
\* nothing reads while the file is missing
Remove ==
    /\ file.st # "missing"
    /\ file' = [st |-> "missing", mtime |-> file.mtime, doc |-> Doc("syntax", <<>>)]
    /\ modified' = TRUE
    /\ stale' = FALSE
    /\ UNCHANGED <<loaderVars, tableVars, readerVars>>

\* the file loses its read permission: Stat succeeds, ReadFile fails
Chmod ==
    /\ file.st = "ok"
    /\ file' = [st |-> "noperm", mtime |-> file.mtime, doc |-> Doc("syntax", <<>>)]
    /\ modified' = TRUE
    /\ stale' = FALSE
    /\ UNCHANGED <<loaderVars, tableVars, readerVars>>

Writer ==
    \/ \E t \in MTimes : WriteEmpty(t)
    \/ \E e \in Elems, t \in MTimes : AppendRecord(e, t)
    \/ \E k \in BadKinds \cup {"null"}, t \in MTimes : WriteOther(k, t)
    \/ Remove
    \/ Chmod

\* --------------------------------------------------------------- the system
Init ==
    /\ file = [st |-> "missing", mtime |-> ZeroTime, doc |-> Doc("syntax", <<>>)]
    /\ last = ZeroTime
    /\ fi = ZeroTime
    /\ m = NilMap
    /\ err = "nil"
    /\ pc = "reload"
    /\ routes = NilMap
    /\ mutex = {}
    /\ todo = {}
    /\ installed = NilMap
    /\ modified = TRUE
    /\ stale = FALSE
    /\ rpc = [r \in Readers |-> "idle"]
    /\ rname = [r \in Readers |-> ""]
    /\ rres = [r \in Readers |-> NilProxy]
    /\ rnames = [r \in Readers |-> <<>>]

Next ==
    \/ ReloadStat
    \/ ReloadLoad
    \/ UpdateLock
    \/ UpdateRange
    \/ UpdateUnlock
    \/ Sleep
    \/ Backoff
    \/ Writer

\* the reload loop and the config source
Spec == Init /\ [][Next]_vars

NextServe ==
    \/ ReloadAny
    \/ UpdateLock
    \/ UpdateRange
    \/ UpdateUnlock
    \/ Sleep
    \/ Backoff
    \/ \E r \in Readers : Handler(r)

\* the request handlers beside the reload loop
Serve == Init /\ [][NextServe]_vars

\* the outside process giving the file a modification time it never had with
\* every write: no more than MaxMTime writes, and between them it may remove
\* the file or take its read permission
FreshWriter ==
    \/ \E d \in Docs, t \in MTimes :
         /\ t = file.mtime + 1
         /\ WriteFile(d, t)
    \/ Remove
    \/ Chmod

\* one step of the reload goroutine
Loop ==
    \/ ReloadStat
    \/ ReloadLoad
    \/ UpdateLock
    \/ UpdateRange
    \/ UpdateUnlock
    \/ Sleep
    \/ Backoff

NextFair ==
    \/ Loop
    \/ FreshWriter

\* the reload loop, which the scheduler runs again and again, and the
\* config source written finitely often
FairSpec == Init /\ [][NextFair]_vars /\ WF_vars(Loop)

\* ------------------------------------------------------------------ claims
\* the entries of a mapping that Update is to install
ValidNames(mm) == {n \in DOMAIN mm.tab : n # "" /\ mm.tab[n] # ""}
\* the table a mapping stands for: one target per valid entry
ValidTable(mm) ==
    MapOf([n \in ValidNames(mm) |-> NewSingleHostReverseProxy(mm.tab[n])])
Range(s) == {s[i] : i \in DOMAIN s}
\* the loop has called Update and Update has not returned
InUpdate == pc \in {"update", "range"}
\* Update has just returned: the iteration that called it is still asleep
AfterUpdate == pc = "sleep" /\ ~m.nil

\* C1: a GetProxy or Names call that runs beside an Update sees the table
\* as it was before that Update or as it is after it (the valid entries of
\* the new mapping), never a table in between
C1_ReadersSeeWholeSnapshots ==
    \A r \in Readers :
      /\ rpc[r] = "looked" =>
           \/ rres[r] = GetProxy(installed, rname[r])
           \/ InUpdate /\ rres[r] = GetProxy(ValidTable(m), rname[r])
      /\ rpc[r] = "collected" =>
           /\ Len(rnames[r]) = Cardinality(Range(rnames[r]))
           /\ \/ Range(rnames[r]) = DOMAIN installed.tab
              \/ InUpdate /\ Range(rnames[r]) = ValidNames(m)

\* a lookup made while Update waits for the mutex found the old target of a
\* name whose target the new mapping changes
C1_Witness ==
    \E r \in Readers :
      /\ rpc[r] = "looked"
      /\ pc = "update"
      /\ rres[r] # NilProxy
      /\ GetProxy(ValidTable(m), rname[r]) # rres[r]
      /\ Cardinality(ValidNames(m)) = 2

\* C2: a Reload that ends with an error sends the loop to its backoff
\* without a call of Update, and from there to the next Reload, and GetProxy
\* answers every name as before all along
C2_FailedReloadKeepsRoutes ==
    [][/\ (pc \in {"reload", "load"} /\ pc' \notin {"reload", "load"}
             /\ err' # "nil")
          => /\ pc' = "backoff"
             /\ m'.nil
             /\ mutex' = mutex
             /\ \A n \in Names : GetProxy(routes', n) = GetProxy(routes, n)
       /\ pc = "backoff"
          => /\ pc' \in {"backoff", "reload"}
             /\ \A n \in Names : GetProxy(routes', n) = GetProxy(routes, n)
      ]_vars

\* the loop backs off after a parse error while a table with an entry is
\* installed
C2_Witness ==
    /\ pc = "backoff"
    /\ err = "parse"
    /\ routes = installed
    /\ GetProxy(routes, "a") # NilProxy

\* C3: l.last changes only in the step of Reload in which Load succeeded,
\* and Reload then returns a mapping
C3_LastOnlyOnSuccess ==
    [][last' # last
         => /\ pc = "load"
            /\ pc' = "update"
            /\ ~m'.nil
            /\ err' = "nil"
            /\ last' = fi
      ]_vars

\* a parse error on a file newer than the remembered time left the
\* remembered time as the earlier load set it
C3_Witness ==
    /\ pc = "backoff"
    /\ err = "parse"
    /\ last # ZeroTime
    /\ file.st = "ok"
    /\ file.mtime # last

\* C4: a Reload that finds the file with the remembered modification time
\* returns nil, nil at once: Load is not reached and nothing else changes
C4_UnchangedReloadIsNoop ==
    [][(pc = "reload" /\ pc' # "reload"
          /\ file.st # "missing" /\ file.mtime = last)
         => /\ pc' = "sleep"
            /\ m'.nil
            /\ err' = "nil"
            /\ UNCHANGED <<last, fi, routes, installed, file>>
      ]_vars

\* after a load that installed a table, the next Reload of the same file
\* returned nil, nil
C4_Witness ==
    /\ pc = "sleep"
    /\ m.nil
    /\ err = "nil"
    /\ ~modified
    /\ file.st = "ok"
    /\ file.mtime = last
    /\ GetProxy(routes, "a") # NilProxy

\* C4 as stated: once a Reload has returned a mapping and the file has not
\* been written after that return, the next Reload returns nil, nil
C4_NotModifiedAfterwards ==
    [][(pc = "reload" /\ pc' # "reload" /\ ~modified)
         => /\ pc' = "sleep"
            /\ m'.nil
            /\ err' = "nil"
      ]_vars

\* what a list of records says: every name in it, with the address of the
\* last record of that name
RecordName(e) == FieldValue(e.name)
RecordAddress(e) == FieldValue(e.dashboard)
LastRecord(es, n) ==
    CHOOSE i \in DOMAIN es :
      /\ RecordName(es[i]) = n
      /\ \A j \in DOMAIN es : RecordName(es[j]) = n => j <= i
ContentMap(doc) ==
    [n \in {RecordName(doc.elems[i]) : i \in DOMAIN doc.elems}
       |-> RecordAddress(doc.elems[LastRecord(doc.elems, n)])]
\* a list of records none of which is null, or the JSON null
WellFormed(doc) ==
    /\ doc.kind \in {"array", "null"}
    /\ \A i \in DOMAIN doc.elems : ~doc.elems[i].null

\* C5: when Load reads a well-formed file that still has the modification
\* time Stat saw, Reload returns the mapping of exactly that content and
\* remembers that modification time
C5_ReloadReflectsNewContent ==
    [][(pc = "load" /\ pc' # "load"
          /\ file.st = "ok" /\ file.mtime = fi /\ WellFormed(file.doc))
         => /\ pc' = "update"
            /\ err' = "nil"
            /\ ~m'.nil
            /\ m'.tab = ContentMap(file.doc)
            /\ last' = file.mtime
            /\ last' # last
      ]_vars

\* Reload has returned the mapping of the file as it is, and the table of
\* the previous content holds a name the new content does not
C5_Witness ==
    /\ pc = "update"
    /\ file.st = "ok"
    /\ file.mtime = last
    /\ m.tab = ContentMap(file.doc)
    /\ m.tab # <<>>
    /\ \E n \in DOMAIN installed.tab : n \notin DOMAIN m.tab

\* C6: the route table never holds an empty name or a target for an empty
\* address, and GetProxy("") is nil
C6_NoEmptyNameOrAddress ==
    /\ \A n \in DOMAIN routes.tab :
         n # "" /\ routes.tab[n] # NewSingleHostReverseProxy("")
    /\ GetProxy(routes, "") = NilProxy

\* Update has installed a mapping that held an empty name and an empty
\* address
C6_Witness ==
    /\ AfterUpdate
    /\ routes = installed
    /\ \E n \in DOMAIN m.tab : n = ""
    /\ \E n \in DOMAIN m.tab : m.tab[n] = ""

\* the names that several records of a list carry, all with an address
Duplicated(es) ==
    {n \in {RecordName(es[i]) : i \in DOMAIN es} :
       /\ n # ""
       /\ Cardinality({i \in DOMAIN es : RecordName(es[i]) = n}) > 1
       /\ \A i \in DOMAIN es : RecordName(es[i]) = n => RecordAddress(es[i]) # ""}

\* C7: Load gives a name that several records carry the address of the last
\* of them, the mapping reaches Update as Load returned it, and after Update
\* GetProxy of every valid name is the target of its address in the mapping
C7_LastDuplicateWins ==
    /\ [][(pc = "load" /\ pc' = "update")
            => \A n \in Duplicated(file.doc.elems) :
                 /\ n \in DOMAIN m'.tab
                 /\ m'.tab[n] = RecordAddress(
                        file.doc.elems[LastRecord(file.doc.elems, n)])
         ]_vars
    /\ [][InUpdate => m' = m]_vars
    /\ [](AfterUpdate
            => \A n \in ValidNames(m) :
                 GetProxy(routes, n) = NewSingleHostReverseProxy(m.tab[n]))

\* the file holds two records named "a" with different addresses, it has
\* been loaded and installed, and "a" goes to the second address
C7_Witness ==
    /\ AfterUpdate
    /\ file.st = "ok"
    /\ file.mtime = last
    /\ file.doc = Doc("array", <<Obj(<<"a">>, <<"h1">>), Obj(<<"a">>, <<"h2">>)>>)
    /\ DOMAIN m.tab = {"a"}
    /\ GetProxy(routes, "a") = NewSingleHostReverseProxy("h2")

\* C8: when Update(m) returns, the table is exactly the valid entries of m:
\* a name of the previous snapshot that is no valid entry of m is gone, and
\* there are as many entries as m has valid ones
C8_UpdateReplacesSnapshot ==
    [][(pc = "range" /\ pc' = "sleep")
         => /\ routes' = ValidTable(m)
            /\ DOMAIN routes'.tab = ValidNames(m)
            /\ Cardinality(DOMAIN routes'.tab) = Cardinality(ValidNames(m))
            /\ \A n \in DOMAIN installed.tab \ ValidNames(m) :
                 GetProxy(routes', n) = NilProxy
            /\ installed' = routes'
      ]_vars

\* Update has filled the new table and is about to return; the snapshot
\* before it held a name that the new mapping does not, and the mapping has
\* a valid and an invalid entry
C8_Witness ==
    /\ pc = "range"
    /\ todo = {}
    /\ routes = ValidTable(m)
    /\ routes.tab # <<>>
    /\ DOMAIN m.tab # ValidNames(m)
    /\ \E n \in DOMAIN installed.tab : n \notin ValidNames(m)

\* C9: GetProxy of a name the table does not hold, or with routes still nil,
\* returns nil; the step changes neither the table nor the state of the
\* process
C9_MissingNameIsNil ==
    [][\A r \in Readers :
         (rpc[r] = "lookup" /\ rpc'[r] # "lookup")
           => /\ rpc'[r] = "looked"
              /\ (routes.nil \/ rname[r] \notin DOMAIN routes.tab)
                   => rres'[r] = NilProxy
              /\ routes' = routes
              /\ pc' = pc
      ]_vars

\* a lookup of a name that is not in a table with an entry returned nil
C9_Witness ==
    \E r \in Readers :
      /\ rpc[r] = "looked"
      /\ ~routes.nil
      /\ DOMAIN routes.tab # {}
      /\ rname[r] # ""
      /\ rname[r] \notin DOMAIN routes.tab
      /\ rres[r] = NilProxy

\* C10: the slice Names builds holds each name of the current snapshot once
\* and nothing else: nothing while routes is nil, and the valid names of m
\* right after Update(m)
C10_NamesAreTheSnapshot ==
    \A r \in Readers :
      rpc[r] = "collected" =>
        /\ Range(rnames[r]) = DOMAIN routes.tab
        /\ Len(rnames[r]) = Cardinality(DOMAIN routes.tab)
        /\ routes.nil => rnames[r] = <<>>
        /\ AfterUpdate => Range(rnames[r]) = ValidNames(m)

\* Names ran right after an Update installed two names
C10_Witness ==
    \E r \in Readers :
      /\ rpc[r] = "collected"
      /\ AfterUpdate
      /\ Len(rnames[r]) = 2
      /\ Range(rnames[r]) = {"a", "b"}

\* the ways a call of Reload comes back to the loop: with a mapping, with
\* nothing to do, or with an error
ReloadReturned ==
    \/ pc' = "update" /\ ~m'.nil /\ err' = "nil"
    \/ pc' = "sleep" /\ m'.nil /\ err' = "nil"
    \/ pc' = "backoff" /\ m'.nil /\ err' # "nil"

\* C11: whatever the file holds, a call of Reload comes back with a
\* mapping, with nothing to do or with an error, and the loop goes on: no
\* content of the file ends the loop
C11_EveryContentIsHandled ==
    [][(pc \in {"reload", "load"} /\ pc' \notin {"reload", "load"})
         => ReloadReturned]_vars

\* the request tasks inside p.ServeHTTP
Forwarding == {r \in Readers : rpc[r] = "serve"}
\* the request tasks between r.Lock() and the deferred r.Unlock()
Locked == {r \in Readers : rpc[r] \in {"lookup", "looked", "collect", "collected"}}

\* C12: a request task that forwards does not hold the mutex, GetProxy
\* having unlocked it before ServeHTTP is called: while requests are being
\* forwarded Update, GetProxy and Names can lock the mutex as soon as no
\* other call holds it, and go on to their end once they hold it
C12_NoLockWhileForwarding ==
    /\ \A r \in Readers :
         rpc[r] \in {"idle", "getproxy", "names", "serve", "forbidden"}
           => r \notin mutex
    /\ (Running /\ Forwarding # {})
         => /\ (pc = "update" /\ Locked = {}) => ENABLED UpdateLock
            /\ pc = "range" => ENABLED (UpdateRange \/ UpdateUnlock)
            /\ \A r \in Readers :
                 /\ (rpc[r] = "getproxy" /\ Locked = {} /\ pc # "range")
                      => ENABLED GetProxyLock(r)
                 /\ (rpc[r] = "names" /\ Locked = {} /\ pc # "range")
                      => ENABLED NamesLock(r)
                 /\ rpc[r] = "lookup" => ENABLED GetProxyRead(r)
                 /\ rpc[r] = "looked" => ENABLED GetProxyUnlock(r)
                 /\ rpc[r] = "collect" => ENABLED NamesRange(r)
                 /\ rpc[r] = "collected" => ENABLED NamesUnlock(r)

\* while one request was being forwarded, Update installed a table that has
\* another target for its name, and a second request looked a name up
C12_Witness ==
    \E r, q \in Readers :
      /\ rpc[r] = "serve"
      /\ AfterUpdate
      /\ rres[r] # GetProxy(routes, rname[r])
      /\ rpc[q] = "looked"
      /\ rres[q] = GetProxy(routes, rname[q])
      /\ rres[q] # NilProxy

\* C13: the "/**" handler calls GetProxy once with the forward parameter;
\* it forwards exactly when the table that call read (the installed one,
\* read inside the mutex) has an entry of that name, then through the
\* target of that entry and no other, and answers 403 without forwarding
\* when the name is empty or not in that table
C13_ForwardsOnlyKnownNames ==
    [][\A r \in Readers :
         /\ (rpc[r] = "looked" /\ rpc'[r] # "looked")
              => /\ routes = installed
                 /\ IF rname[r] \in DOMAIN installed.tab
                      THEN /\ rpc'[r] = "serve"
                           /\ rname[r] # ""
                           /\ rres'[r] = installed.tab[rname[r]]
                      ELSE rpc'[r] = "forbidden"
         /\ (rpc'[r] = "serve" /\ rpc[r] # "serve") => rpc[r] = "looked"
         /\ rpc[r] = "serve"
              => \/ rpc'[r] = "serve" /\ rres'[r] = rres[r]
                 \/ rpc'[r] = "idle"
         /\ rpc[r] = "forbidden" => rpc'[r] \in {"forbidden", "idle"}
         /\ (rpc'[r] \in {"getproxy", "lookup"} /\ rpc[r] # rpc'[r])
              => rpc[r] \in {"idle", "getproxy"}
      ]_vars

\* one request is forwarded to the target of "a", one for a name the table
\* lacks and one without a name were refused
C13_Witness ==
    \E r, q \in Readers :
      /\ rpc[r] = "serve"
      /\ rname[r] = "a"
      /\ rres[r] = NewSingleHostReverseProxy("h1")
      /\ rpc[q] = "forbidden"
      /\ rname[q] \in {"", "b"}
      /\ DOMAIN routes.tab = {"a"}

\* the file is readable and holds a list of records, none of them null
FinalContentGood == file.st = "ok" /\ WellFormed(file.doc)
\* the table is the valid entries of what the file holds, and no Update is
\* under way
TableIsContent ==
    /\ routes = ValidTable(MapOf(ContentMap(file.doc)))
    /\ installed = routes
    /\ mutex = {}

\* C14: the file is written finitely often, always with a modification time
\* it never had; if what it holds in the end is readable and well-formed, the
\* table is, from some time on and for ever, the valid entries of that
\* content, whatever Reload met before
C14_FinalContentIsInstalled == <>[](FinalContentGood => TableIsContent)

\* the same while no record that Load met was null
C14_UnlessCrashed == <>[](Running => (FinalContentGood => TableIsContent))

\* one iteration of the loop in its order: Reload, then Update with the
\* mapping if Reload returned one, then the sleep, then the next Reload
LoopOrder ==
    /\ (pc \in {"reload", "load"} /\ pc' \notin {"reload", "load"})
         => IF m'.nil THEN pc' \in {"sleep", "backoff"} ELSE pc' = "update"
    /\ (pc' = "update" /\ pc # "update") => pc = "load"
    /\ pc = "update" => (m' = m /\ pc' \in {"update", "range"})
    /\ pc = "range"
         => /\ m' = m
            /\ \/ pc' = "range"
               \/ pc' = "sleep" /\ routes' = ValidTable(m) /\ installed' = routes'
    /\ pc \in {"sleep", "backoff"}
         => (pc' \in {pc, "reload"} /\ routes' = routes /\ mutex' = mutex)
    /\ (pc' = "reload" /\ pc # "reload") => pc \in {"sleep", "backoff"}
    /\ routes' # routes => (pc \in {"update", "range"} /\ ~m.nil)

\* C15: the loop calls Update once for every Reload that returned a mapping,
\* with that mapping and before its next Reload, and never after a Reload
\* that returned nothing or an error; tables are installed in the order
\* their mappings were returned; every iteration ends in a new Reload, the
\* loop having no state it stays in
C15_UpdateOncePerMapping ==
    [][LoopOrder
       /\ pc' \in {"reload", "load", "update", "range", "sleep", "backoff"}
      ]_vars

\* the same while no record that Load met was null
C15_UnlessCrashed == [][pc' # "crashed" => LoopOrder]_vars

\* C16 as the specification has it: once Reload has failed to parse the
\* file, no later Reload reads and parses the file again before it is written
C16_BadContentNotReadAgain ==
    [][stale => /\ (pc = "reload" /\ pc' # "reload") => pc' # "load"
                /\ ~(pc = "load" /\ pc' # "load")
      ]_vars

\* C16: once Reload has failed to parse the file, l.last is as before, and
\* every later Reload that finds the unwritten file with a modification
\* time other than l.last reads and parses it again and fails as before,
\* leaving l.last and the table alone, until the file is written
C16_BadContentReadEveryCycle ==
    [][stale =>
         /\ (pc = "reload" /\ pc' # "reload")
              => /\ last' = last
                 /\ IF file.mtime = last
                      THEN pc' = "sleep" /\ m'.nil /\ err' = "nil"
                      ELSE pc' = "load" /\ fi' = file.mtime
         /\ (pc = "load" /\ pc' # "load")
              => /\ pc' = "backoff"
                 /\ err' = Trace("parse")
                 /\ m'.nil
                 /\ last' = last
                 /\ routes' = routes
                 /\ stale'
         /\ ~stale' => (pc' = pc /\ last' = last)
      ]_vars

\* Reload is about to read a file it failed to parse before and that was
\* not written since, while a table is installed
C16_Witness ==
    /\ stale
    /\ pc = "load"
    /\ fi = file.mtime
    /\ fi # last
    /\ file.doc.kind \in BadKinds
    /\ ~routes.nil

\* the records of a list that have a name and an address
IsValidRecord(e) == RecordName(e) # "" /\ RecordAddress(e) # ""
ValidRecords(es) == SelectSeq(es, IsValidRecord)

\* C17 as the specification has it: the mapping Reload returns has no empty
\* name and no empty address, and stands for the same table as the list with
\* its invalid records taken out
C17_InvalidDroppedAtLoad ==
    [][(pc = "load" /\ pc' = "update")
         => /\ \A n \in DOMAIN m'.tab : n # "" /\ m'.tab[n] # ""
            /\ ValidTable(m')
                 = ValidTable(MapOf(ContentMap(Doc("array", ValidRecords(file.doc.elems)))))
      ]_vars

\* C17: Load keeps every record, the last of a name winning whether or not
\* it is valid, and Update skips the entries with an empty name or address:
\* the table installed from a list has a name exactly when the last record
\* of that name in the list has a name and an address
C17_InvalidDroppedByUpdate ==
    [][/\ (pc = "load" /\ pc' = "update")
            => /\ m'.tab = ContentMap(file.doc)
               /\ \A i \in DOMAIN file.doc.elems :
                    RecordName(file.doc.elems[i]) \in DOMAIN m'.tab
       /\ (pc = "range" /\ pc' = "sleep")
            => /\ routes' = ValidTable(m)
               /\ \A n \in Names :
                    GetProxy(routes', n) # NilProxy
                      <=> (n \in DOMAIN m.tab /\ n # "" /\ m.tab[n] # "")
      ]_vars

\* Update has installed a table without "a" from a file whose first record
\* gives "a" an address and whose second record gives it none
C17_Witness ==
    /\ AfterUpdate
    /\ file.st = "ok"
    /\ file.doc = Doc("array", <<Obj(<<"a">>, <<"h1">>), Obj(<<"a">>, <<"">>)>>)
    /\ m.tab = ContentMap(file.doc)
    /\ m.tab["a"] = ""
    /\ GetProxy(routes, "a") = NilProxy

NoValidRecord(f) ==
    /\ f.st = "ok"
    /\ WellFormed(f.doc)
    /\ ValidRecords(f.doc.elems) = <<>>

\* C19: when Load reads a well-formed file with a new modification time
\* and without a valid record, Reload returns a mapping that is not nil (it
\* is empty or has only invalid entries), the loop calls Update with it, and
\* the table Update leaves is not nil and empty: GetProxy finds no name,
\* Names has nothing to return
C19_EmptyContentEmptiesTable ==
    [][/\ (pc = "load" /\ pc' # "load" /\ NoValidRecord(file))
            => /\ pc' = "update"
               /\ ~m'.nil
               /\ err' = "nil"
               /\ ValidNames(m') = {}
               /\ last' = fi
       /\ (pc = "range" /\ pc' = "sleep" /\ ValidNames(m) = {})
            => /\ ~routes'.nil
               /\ DOMAIN routes'.tab = {}
               /\ installed' = routes'
               /\ \A n \in Names : GetProxy(routes', n) = NilProxy
               /\ Orders(DOMAIN routes'.tab) = {<<>>}
      ]_vars

\* Update is at its end with an empty table, built from a mapping with
\* nothing but an invalid entry, where a table with an entry was installed
C19_Witness ==
    /\ pc = "range"
    /\ todo = {}
    /\ NoValidRecord(file)
    /\ m.tab = ContentMap(file.doc)
    /\ DOMAIN m.tab # {}
    /\ DOMAIN routes.tab = {}
    /\ DOMAIN installed.tab # {}

====
